---------------------------- MODULE Spec2Model ----------------------------
(***************************************************************************)
(* Model of app.py of Directorship-Builder: the officer-id extractor, the  *)
(* text formatters, the paginated appointment fetcher, the line builder    *)
(* and the JSON endpoint.                                                  *)
(*                                                                         *)
(* A Python str is modelled as a sequence of one-character strings, so     *)
(* that trimming, searching, splitting and case conversion are computed    *)
(* character by character.                                                 *)
(***************************************************************************)
EXTENDS Integers, Sequences, FiniteSets, TLC

VARIABLES
    pc,            \* position of the modelled call / request handler
    user_input,    \* extract_officer_id: the argument
    extracted,     \* extract_officer_id: the outcome (return value or raise)
    name,          \* smart_company_case: the argument
    cased,         \* smart_company_case: the return value
    appointments,  \* build_output_lines: the argument
    lines,         \* build_output_lines: the return value
    api_key,       \* api(): value of get_api_key() (None is modelled as <<>>)
    active_only,   \* api(): the active_only flag of the request
    upstream,      \* the registry: record count, reported total, slice size
    officer_id,    \* api(): the extracted officer id
    items,         \* fetch_all_appointments: accumulated items
    start_index,   \* fetch_all_appointments: offset of the next request
    requests,      \* log of the requests issued (their params)
    pages,         \* log of the length of every page received
    outcome,       \* fetch_all_appointments: "none", "return" or the raised error
    response       \* api(): the HTTP response (status, body)

vars == <<pc, user_input, extracted, name, cased, appointments, lines, api_key,
          active_only, upstream, officer_id, items, start_index, requests, pages, outcome,
          response>>

-----------------------------------------------------------------------------
(* Characters and strings                                                   *)

UpperSeq == <<"A","B","C","D","E","F","G","H","I","J","K","L","M",
              "N","O","P","Q","R","S","T","U","V","W","X","Y","Z">>

LowerSeq == <<"a","b","c","d","e","f","g","h","i","j","k","l","m",
              "n","o","p","q","r","s","t","u","v","w","x","y","z">>

DigitSeq == <<"0","1","2","3","4","5","6","7","8","9">>

Range(f) == {f[i] : i \in DOMAIN f}

UpperChars == Range(UpperSeq)
LowerChars == Range(LowerSeq)
DigitChars == Range(DigitSeq)
AlphaChars == UpperChars \cup LowerChars
AlnumChars == AlphaChars \cup DigitChars

\* str.isspace() restricted to the blank, the only whitespace of the inputs
IsSpace(c) == c = " "

IndexIn(seq, c) == CHOOSE i \in DOMAIN seq : seq[i] = c

\* str.lower() / str.upper() of one character
LowerChar(c) == IF c \in UpperChars THEN LowerSeq[IndexIn(UpperSeq, c)] ELSE c
UpperChar(c) == IF c \in LowerChars THEN UpperSeq[IndexIn(LowerSeq, c)] ELSE c

Lower(s) == [i \in DOMAIN s |-> LowerChar(s[i])]
Upper(s) == [i \in DOMAIN s |-> UpperChar(s[i])]

RECURSIVE LStrip(_)
LStrip(s) == IF s # <<>> /\ IsSpace(Head(s)) THEN LStrip(Tail(s)) ELSE s

RECURSIVE RStrip(_)
RStrip(s) ==
    IF s # <<>> /\ IsSpace(s[Len(s)]) THEN RStrip(SubSeq(s, 1, Len(s) - 1)) ELSE s

\* str.strip()
Strip(s) == RStrip(LStrip(s))

\* s[i:] for a 1-based i
From(s, i) == SubSeq(s, i, Len(s))

\* s.startswith(lit, i - 1)
StartsWithAt(s, i, lit) ==
    /\ i + Len(lit) - 1 <= Len(s)
    /\ \A k \in 1..Len(lit) : s[i + k - 1] = lit[k]

\* s.find(c, i - 1), 1-based; 0 when absent
RECURSIVE FindFrom(_, _, _)
FindFrom(s, c, i) ==
    IF i > Len(s) THEN 0
    ELSE IF s[i] = c THEN i
    ELSE FindFrom(s, c, i + 1)

Find(s, c) == FindFrom(s, c, 1)

\* s.rfind(c), 1-based; 0 when absent
RECURSIVE RFindFrom(_, _, _)
RFindFrom(s, c, i) ==
    IF i < 1 THEN 0
    ELSE IF s[i] = c THEN i
    ELSE RFindFrom(s, c, i - 1)

RFind(s, c) == RFindFrom(s, c, Len(s))

-----------------------------------------------------------------------------
(* extract_officer_id                                                       *)

Raise(exc) == [kind |-> "raise", exc |-> exc, value |-> <<>>]
Return(v)  == [kind |-> "return", exc |-> "", value |-> v]

\* the character class [A-Za-z0-9_-]
IdChars == AlnumChars \cup {"_", "-"}

BareIdMinLen == 10

\* a slip in the quantifier: {11,} for {10,}
IsBareIdLonger(s) ==
    /\ Find(s, "/") = 0
    /\ Len(s) > BareIdMinLen
    /\ \A i \in DOMAIN s : s[i] \in IdChars

\* "/" not in s and re.fullmatch(r"[A-Za-z0-9_-]{10,}", s)
IsBareId(s) ==
    /\ Find(s, "/") = 0
    /\ Len(s) >= BareIdMinLen
    /\ \A i \in DOMAIN s : s[i] \in IdChars

\* urllib.parse: scheme_chars and uses_params
SchemeChars == AlnumChars \cup {"+", "-", "."}
UsesParams == { <<>>, <<"h","t","t","p">>, <<"h","t","t","p","s">>,
                <<"f","t","p">> }

\* urlsplit: the scheme and what follows it
SplitScheme(url) ==
    LET i == Find(url, ":")
    IN  IF /\ i > 1
           /\ url[1] \in AlphaChars
           /\ \A k \in 1..(i - 1) : url[k] \in SchemeChars
        THEN [scheme |-> Lower(SubSeq(url, 1, i - 1)), rest |-> From(url, i + 1)]
        ELSE [scheme |-> <<>>, rest |-> url]

\* _splitnetloc(url, 2): the netloc ends at the first of "/", "?", "#"
RECURSIVE NetlocEnd(_, _)
NetlocEnd(url, i) ==
    IF i > Len(url) \/ url[i] \in {"/", "?", "#"} THEN i
    ELSE NetlocEnd(url, i + 1)

SplitNetloc(url) ==
    IF StartsWithAt(url, 1, <<"/", "/">>)
    THEN LET e == NetlocEnd(url, 3)
         IN  [netloc |-> SubSeq(url, 3, e - 1), rest |-> From(url, e)]
    ELSE [netloc |-> <<>>, rest |-> url]

\* raise ValueError("Invalid IPv6 URL")
InvalidNetloc(netloc) ==
    LET open  == Find(netloc, "[") # 0
        close == Find(netloc, "]") # 0
    IN  (open /\ ~close) \/ (close /\ ~open)

\* url.split(c, 1)[0] when c is in url
CutAt(url, c) ==
    LET i == Find(url, c)
    IN  IF i = 0 THEN url ELSE SubSeq(url, 1, i - 1)

\* _splitparams(url)[0]
SplitParams(url) ==
    IF Find(url, "/") # 0
    THEN LET i == FindFrom(url, ";", RFind(url, "/"))
         IN  IF i = 0 THEN url ELSE SubSeq(url, 1, i - 1)
    ELSE CutAt(url, ";")

\* urlparse(s): whether it raises, and parsed.path
UrlParse(s) ==
    LET sch  == SplitScheme(s)
        nl   == SplitNetloc(sch.rest)
        path == CutAt(CutAt(nl.rest, "#"), "?")
    IN  IF InvalidNetloc(nl.netloc)
        THEN [ok |-> FALSE, path |-> <<>>]
        ELSE [ok |-> TRUE,
              path |-> IF sch.scheme \in UsesParams /\ Find(path, ";") # 0
                       THEN SplitParams(path)
                       ELSE path]

SlashOfficers == <<"/","o","f","f","i","c","e","r","s","/">>
SlashAppointments == <<"/","a","p","p","o","i","n","t","m","e","n","t","s">>

\* the greedy group ([^/]+) starting at i: the index after its last character
RECURSIVE GroupEnd(_, _)
GroupEnd(path, i) ==
    IF i > Len(path) \/ path[i] = "/" THEN i ELSE GroupEnd(path, i + 1)

\* re.search of lead ([^/]+) trail from start position i on; the group, or
\* <<>> for no match (the group of a match is never empty)
RECURSIVE ReSearchFrom(_, _, _, _)
ReSearchFrom(path, lead, trail, i) ==
    IF i > Len(path) THEN <<>>
    ELSE LET g == i + Len(lead)
             e == GroupEnd(path, g)
         IN  IF /\ StartsWithAt(path, i, lead)
                /\ e > g
                /\ StartsWithAt(path, e, trail)
             THEN SubSeq(path, g, e - 1)
             ELSE ReSearchFrom(path, lead, trail, i + 1)

ReSearch(path, lead, trail) == ReSearchFrom(path, lead, trail, 1)

\* a slip in the order: the fallback pattern alone
FindOfficerIdFallbackOnly(path) == ReSearch(path, SlashOfficers, <<>>)

\* lines 38-46: the preferred pattern, then the fallback; <<>> for neither
FindOfficerId(path) ==
    LET m1 == ReSearch(path, SlashOfficers, SlashAppointments)
        m2 == ReSearch(path, SlashOfficers, <<>>)
    IN  IF m1 # <<>> THEN m1 ELSE m2

extract_officer_id(input) ==
    LET s == Strip(input)
    IN  IF s = <<>> THEN Raise("ValueError")
        ELSE IF IsBareId(s) THEN Return(s)
        ELSE LET parsed == UrlParse(s)
             IN  IF ~parsed.ok THEN Raise("ValueError")
                 ELSE LET id == FindOfficerId(parsed.path)
                      IN  IF id # <<>> THEN Return(id) ELSE Raise("ValueError")


-----------------------------------------------------------------------------
(* smart_company_case                                                       *)

UnknownCompany == <<"U","n","k","n","o","w","n"," ","c","o","m","p","a","n","y">>

\* s.split(" "): the words between single blanks, empty words kept
RECURSIVE SplitOn(_, _)
SplitOn(s, sep) ==
    LET i == Find(s, sep)
    IN  IF i = 0 THEN <<s>>
        ELSE <<SubSeq(s, 1, i - 1)>> \o SplitOn(From(s, i + 1), sep)

\* sep.join(words)
RECURSIVE JoinWith(_, _)
JoinWith(words, sep) ==
    IF words = <<>> THEN <<>>
    ELSE IF Len(words) = 1 THEN words[1]
    ELSE words[1] \o sep \o JoinWith(Tail(words), sep)

\* [c for c in s if c in chars]
RECURSIVE Keep(_, _)
Keep(s, chars) ==
    IF s = <<>> THEN <<>>
    ELSE IF Head(s) \in chars THEN <<Head(s)>> \o Keep(Tail(s), chars)
    ELSE Keep(Tail(s), chars)

\* all(c.isupper() for c in letters)
IsAllCaps(letters) == \A i \in DOMAIN letters : letters[i] \in UpperChars

\* word_re = ^([^A-Za-z0-9]*)(.*?)([^A-Za-z0-9]*)$ : the greedy lead, the
\* shortest core that leaves only non-alphanumerics, and that tail
RECURSIVE LeadLen(_)
LeadLen(w) ==
    IF w = <<>> \/ Head(w) \in AlnumChars THEN 0 ELSE 1 + LeadLen(Tail(w))

RECURSIVE TailLen(_)
TailLen(w) ==
    IF w = <<>> \/ w[Len(w)] \in AlnumChars THEN 0
    ELSE 1 + TailLen(SubSeq(w, 1, Len(w) - 1))

WordMatch(w) ==
    LET l    == LeadLen(w)
        rest == From(w, l + 1)
        t    == TailLen(rest)
    IN  [lead |-> SubSeq(w, 1, l),
         core |-> SubSeq(rest, 1, Len(rest) - t),
         tail |-> From(rest, Len(rest) - t + 1)]

SpecialWords ==
    { <<<<"L","I","M","I","T","E","D">>, <<"L","i","m","i","t","e","d">>>>,
      <<<<"L","T","D">>, <<"L","t","d">>>>,
      <<<<"P","L","C">>, <<"P","L","C">>>>,
      <<<<"L","L","P">>, <<"L","L","P">>>>,
      <<<<"U","K">>, <<"U","K">>>>,
      <<<<"E","U">>, <<"E","U">>>>,
      <<<<"U","S","A">>, <<"U","S","A">>>>,
      <<<<"I","N","C">>, <<"I","n","c">>>>,
      <<<<"C","O">>, <<"C","o">>>>,
      <<<<"C","O","R","P">>, <<"C","o","r","p">>>> }

ExcludeSmall ==
    { <<"T","H","E">>,
      <<"A","N","D">>,
      <<"F","O","R">>,
      <<"O","F">>,
      <<"A">>,
      <<"A","N">>,
      <<"I","N">>,
      <<"O","N">>,
      <<"A","T">>,
      <<"T","O">>,
      <<"B","Y">>,
      <<"A","S">> }

ShortAcronymMaxLen == 3

\* str.title(): a letter after a letter is lowercased, any other letter is
\* uppercased; was_cased tells whether the previous character was a letter
RECURSIVE TitleFrom(_, _)
TitleFrom(s, was_cased) ==
    IF s = <<>> THEN <<>>
    ELSE LET c == Head(s)
         IN  IF c \in AlphaChars
             THEN <<IF was_cased THEN LowerChar(c) ELSE UpperChar(c)>>
                      \o TitleFrom(Tail(s), TRUE)
             ELSE <<c>> \o TitleFrom(Tail(s), FALSE)

\* a slip in the method: str.capitalize() for str.title()
TitleAsCapitalize(s) ==
    [i \in DOMAIN s |-> IF i = 1 THEN UpperChar(s[i]) ELSE LowerChar(s[i])]

Title(s) == TitleFrom(s, FALSE)

\* the branch chain of lines 148-157 for one core
NewCore(core) ==
    LET core_clean == Upper(Keep(core, AlnumChars))
    IN  IF \E sw \in SpecialWords : sw[1] = core_clean
        THEN (CHOOSE sw \in SpecialWords : sw[1] = core_clean)[2]
        ELSE IF /\ core_clean # <<>>
                /\ \A i \in DOMAIN core_clean : core_clean[i] \in AlphaChars
                /\ Len(core_clean) <= ShortAcronymMaxLen
                /\ core_clean \notin ExcludeSmall
        THEN core_clean
        ELSE IF \E i \in DOMAIN core : core[i] \in DigitChars
        THEN core
        ELSE Title(Lower(core))

\* one pass of the loop over words
CaseWord(w) ==
    IF w = <<>> THEN <<>>
    ELSE LET m == WordMatch(w)
         IN  m.lead \o NewCore(m.core) \o m.tail

smart_company_case(nm) ==
    IF nm = <<>> THEN UnknownCompany
    ELSE LET s       == Strip(nm)
             letters == Keep(s, AlphaChars)
         IN  IF letters = <<>> THEN s
             ELSE IF ~IsAllCaps(letters) THEN s
             ELSE LET words == SplitOn(s, " ")
                  IN  JoinWith([i \in DOMAIN words |-> CaseWord(words[i])], <<" ">>)

-----------------------------------------------------------------------------
(* parse_date, format_month_year, format_role                               *)

AllDigits(s) == \A i \in DOMAIN s : s[i] \in DigitChars

DigitValue(c) == IndexIn(DigitSeq, c) - 1

RECURSIVE ToInt(_)
ToInt(s) ==
    IF s = <<>> THEN 0
    ELSE 10 * ToInt(SubSeq(s, 1, Len(s) - 1)) + DigitValue(s[Len(s)])

RECURSIVE ToDigits(_)
ToDigits(n) ==
    IF n < 10 THEN <<DigitSeq[n + 1]>>
    ELSE ToDigits(n \div 10) \o <<DigitSeq[(n % 10) + 1]>>

\* strptime's %m: 1[0-2]|0[1-9]|[1-9]
IsMonthText(t) ==
    \/ Len(t) = 1 /\ t[1] \in DigitChars \ {"0"}
    \/ Len(t) = 2 /\ t[1] = "1" /\ t[2] \in {"0", "1", "2"}
    \/ Len(t) = 2 /\ t[1] = "0" /\ t[2] \in DigitChars \ {"0"}

\* strptime's %d: 3[01]|[12]\d|0[1-9]|[1-9]| [1-9]
IsDayText(t) ==
    \/ Len(t) = 1 /\ t[1] \in DigitChars \ {"0"}
    \/ Len(t) = 2 /\ t[1] = "3" /\ t[2] \in {"0", "1"}
    \/ Len(t) = 2 /\ t[1] \in {"1", "2"} /\ t[2] \in DigitChars
    \/ Len(t) = 2 /\ t[1] \in {"0", " "} /\ t[2] \in DigitChars \ {"0"}

IsLeap(y) == y % 4 = 0 /\ (y % 100 # 0 \/ y % 400 = 0)

DaysInMonth(y, m) ==
    IF m = 2 THEN (IF IsLeap(y) THEN 29 ELSE 28)
    ELSE IF m \in {4, 6, 9, 11} THEN 30
    ELSE 31

NoDate == [ok |-> FALSE, year |-> 0, month |-> 0, day |-> 0]

\* datetime.strptime(date_str, "%Y-%m-%d").date(), None on any failure
parse_date(date_str) ==
    IF date_str = <<>> THEN NoDate
    ELSE IF ~(/\ Len(date_str) >= 6
              /\ AllDigits(SubSeq(date_str, 1, 4))
              /\ date_str[5] = "-")
    THEN NoDate
    ELSE LET rest == From(date_str, 6)
             dash == Find(rest, "-")
             mt   == SubSeq(rest, 1, dash - 1)
             dt   == From(rest, dash + 1)
         IN  IF dash = 0 \/ ~IsMonthText(mt) \/ ~IsDayText(dt) THEN NoDate
             ELSE LET y == ToInt(SubSeq(date_str, 1, 4))
                      m == ToInt(mt)
                      d == ToInt(Keep(dt, DigitChars))
                  IN  IF y >= 1 /\ d <= DaysInMonth(y, m)
                      THEN [ok |-> TRUE, year |-> y, month |-> m, day |-> d]
                      ELSE NoDate

MonthNames ==
    << <<"J","a","n","u","a","r","y">>,
       <<"F","e","b","r","u","a","r","y">>,
       <<"M","a","r","c","h">>,
       <<"A","p","r","i","l">>,
       <<"M","a","y">>,
       <<"J","u","n","e">>,
       <<"J","u","l","y">>,
       <<"A","u","g","u","s","t">>,
       <<"S","e","p","t","e","m","b","e","r">>,
       <<"O","c","t","o","b","e","r">>,
       <<"N","o","v","e","m","b","e","r">>,
       <<"D","e","c","e","m","b","e","r">> >>

\* d.strftime("%B %Y")
format_month_year(d) == MonthNames[d.month] \o <<" ">> \o ToDigits(d.year)

Officer == <<"O","f","f","i","c","e","r">>

AcronymMap ==
    { <<<<"l","l","p">>, <<"L","L","P">>>>,
      <<<<"c","i","c">>, <<"C","I","C">>>>,
      <<<<"u","k">>, <<"U","K">>>>,
      <<<<"e","u">>, <<"E","U">>>>,
      <<<<"u","s","a">>, <<"U","S","A">>>> }

LowerWords ==
    { <<"o","f">>,
      <<"a">>,
      <<"a","n">>,
      <<"t","h","e">>,
      <<"a","n","d">>,
      <<"t","o">>,
      <<"f","o","r">>,
      <<"i","n">>,
      <<"o","n">>,
      <<"a","t">>,
      <<"b","y">>,
      <<"w","i","t","h">> }

\* str.replace(a, b) for single characters
ReplaceChar(s, a, b) == [i \in DOMAIN s |-> IF s[i] = a THEN b ELSE s[i]]

\* str.capitalize()
Capitalize(s) ==
    [i \in DOMAIN s |-> IF i = 1 THEN UpperChar(s[i]) ELSE LowerChar(s[i])]

\* [p for p in parts if p]
RECURSIVE NonEmpty(_)
NonEmpty(parts) ==
    IF parts = <<>> THEN <<>>
    ELSE IF Head(parts) = <<>> THEN NonEmpty(Tail(parts))
    ELSE <<Head(parts)>> \o NonEmpty(Tail(parts))

RolePart(parts, i) ==
    LET part == parts[i]
    IN  IF \E a \in AcronymMap : a[1] = part
        THEN (CHOOSE a \in AcronymMap : a[1] = part)[2]
        ELSE IF i # 1 /\ part \in LowerWords THEN part
        ELSE Capitalize(part)

format_role(role) ==
    IF role = <<>> THEN Officer
    ELSE LET raw   == Lower(Strip(ReplaceChar(role, "_", "-")))
             parts == NonEmpty(SplitOn(raw, "-"))
         IN  JoinWith([i \in DOMAIN parts |-> RolePart(parts, i)], <<" ">>)

-----------------------------------------------------------------------------
(* build_output_lines                                                       *)

Before == <<"B","e","f","o","r","e"," ">>
UnknownStart == <<"U","n","k","n","o","w","n"," ","s","t","a","r","t">>
Present == <<"P","r","e","s","e","n","t">>

\* a slip in the order: appointed_before tried before appointed_on
StartLabelBeforeFirst(item) ==
    LET appointed_on     == parse_date(item.appointed_on)
        appointed_before == parse_date(item.appointed_before)
    IN  IF appointed_before.ok
        THEN Before \o format_month_year(appointed_before)
        ELSE IF appointed_on.ok THEN format_month_year(appointed_on)
        ELSE UnknownStart

\* lines 223-228
StartLabel(item) ==
    LET appointed_on     == parse_date(item.appointed_on)
        appointed_before == parse_date(item.appointed_before)
    IN  IF appointed_on.ok THEN format_month_year(appointed_on)
        ELSE IF appointed_before.ok
        THEN Before \o format_month_year(appointed_before)
        ELSE UnknownStart

\* line 230
EndLabel(item) ==
    LET resigned_on == parse_date(item.resigned_on)
    IN  IF resigned_on.ok THEN format_month_year(resigned_on) ELSE Present

\* line 232: f"{company_name} - {role} ({start_label} - {end_label})"
OutputLine(item) ==
    smart_company_case(item.company_name) \o <<" ", "-", " ">>
        \o format_role(item.officer_role) \o <<" ", "(">>
        \o StartLabel(item) \o <<" ", "-", " ">> \o EndLabel(item) \o <<")">>

build_output_lines(appts) == [i \in DOMAIN appts |-> OutputLine(appts[i])]

-----------------------------------------------------------------------------
(* get_api_key, fetch_all_appointments                                      *)

\* (os.environ.get(...) or "").strip() or None
get_api_key(env) == Strip(env)

items_per_page == 100

\* the registry's i-th appointment of the officer (1-based)
UpstreamItem(i) ==
    CASE i % 3 = 0 ->
           [company_number |-> i, company_name |-> <<"I","B","M"," ","L","T","D">>, officer_role |-> <<"d","i","r","e","c","t","o","r">>,
            appointed_on |-> <<"1","9","9","1","-","0","7","-","0","1">>, appointed_before |-> <<>>, resigned_on |-> <<>>]
      [] i % 3 = 1 ->
           [company_number |-> i, company_name |-> <<"A","c","m","e">>, officer_role |-> <<"l","l","p","-","m","e","m","b","e","r">>,
            appointed_on |-> <<>>, appointed_before |-> <<"1","9","8","5","-","1","-","9">>, resigned_on |-> <<"2","0","1","7","-","0","6","-","1","5">>]
      [] OTHER ->
           [company_number |-> i, company_name |-> <<>>, officer_role |-> <<>>,
            appointed_on |-> <<>>, appointed_before |-> <<>>, resigned_on |-> <<>>]

Min(a, b) == IF a <= b THEN a ELSE b

\* data["items"] of the page the registry serves for start_index = start
PageAt(up, start) ==
    LET n == IF start >= up.count THEN 0 ELSE Min(up.cap, up.count - start)
    IN  [k \in 1..n |-> UpstreamItem(start + k)]

\* line 174-176: the query parameters of a request
Params(start, active) ==
    [items_per_page |-> items_per_page, start_index |-> start, filter |-> active]

\* a slip in the order: the general test first
ErrorForGeneralFirst(status) ==
    IF status >= 400 THEN "RuntimeError"
    ELSE IF status = 401 THEN "PermissionError"
    ELSE IF status = 404 THEN "FileNotFoundError"
    ELSE ""

\* lines 184-194: the exception a response status raises, "" for none
ErrorFor(status) ==
    IF status = 401 THEN "PermissionError"
    ELSE IF status = 404 THEN "FileNotFoundError"
    ELSE IF status >= 400 THEN "RuntimeError"
    ELSE ""

\* a slip in the comparison: > for >=
ReachedTotalStrict(up, n) == up.has_total /\ n > up.total

\* line 201: total is not None and len(items) >= total
ReachedTotal(up, n) == up.has_total /\ n >= up.total

\* the walk without its second exit
StopWalkOnTotalOnly(up, n, page_items) == ReachedTotal(up, n)

\* lines 200-206: the two exits of the loop
StopWalk(up, n, page_items) == ReachedTotal(up, n) \/ page_items = <<>>

-----------------------------------------------------------------------------
(* Values of the variables a specification does not use                     *)

NoOutcome == [kind |-> "none", exc |-> "", value |-> <<>>]
NoUpstream == [count |-> 0, has_total |-> FALSE, total |-> 0, cap |-> 0]
NoResponse == [status |-> 0, body |-> <<>>]

IdleExtract == user_input = <<>> /\ extracted = NoOutcome
IdleCase    == name = <<>> /\ cased = <<>>
IdleRows    == appointments = <<>> /\ lines = <<>>
IdleApi     == /\ api_key = <<>>
               /\ active_only = FALSE
               /\ upstream = NoUpstream
               /\ officer_id = <<>>
               /\ items = <<>>
               /\ start_index = 0
               /\ requests = <<>>
               /\ pages = <<>>
               /\ outcome = NoOutcome
               /\ response = NoResponse

extractVars == <<user_input, extracted>>
caseVars    == <<name, cased>>
rowsVars    == <<appointments, lines>>
apiVars     == <<api_key, active_only, upstream, officer_id, items, start_index, requests,
                 pages, outcome, response>>

-----------------------------------------------------------------------------
(* SpecExtract: extract_officer_id applied to bounded inputs                *)

MaxPieces == 5

IdPieces == { <<"A","B","C","D","E">>, <<"Z">> }
BodyPieces == {SlashOfficers, SlashAppointments} \cup IdPieces

RECURSIVE Bodies(_)
Bodies(n) ==
    IF n = 0 THEN {<<>>}
    ELSE LET shorter == Bodies(n - 1)
         IN  shorter \cup {p \o b : p \in BodyPieces, b \in shorter}

\* what an input carries around its body: blanks, a scheme and host, a
\* query, a fragment, parameters, an extra slash, a broken IPv6 host
Wraps ==
    { [pre |-> <<>>, post |-> <<>>],
      [pre |-> <<" ">>, post |-> <<" ", " ">>],
      [pre |-> <<"h","t","t","p","s",":","/","/","h">>, post |-> <<>>],
      [pre |-> <<"x",":">>, post |-> <<";","p">>],
      [pre |-> <<"/">>, post |-> <<>>],
      [pre |-> <<>>, post |-> <<"/">>],
      [pre |-> <<>>, post |-> <<"?">> \o SlashOfficers \o <<"Q">>],
      [pre |-> <<>>, post |-> <<"#">> \o SlashOfficers \o <<"F">>],
      [pre |-> <<>>, post |-> <<";","p">>],
      [pre |-> <<"/","/","[">>, post |-> <<>>] }

ExtractInputs == {w.pre \o b \o w.post : w \in Wraps, b \in Bodies(MaxPieces)}

InitExtract ==
    /\ pc = "call"
    /\ user_input \in ExtractInputs
    /\ extracted = NoOutcome
    /\ IdleCase /\ IdleRows /\ IdleApi

ExtractCall ==
    /\ pc = "call"
    /\ pc' = "return"
    /\ extracted' = extract_officer_id(user_input)
    /\ UNCHANGED <<user_input, caseVars, rowsVars, apiVars>>

NextExtract == ExtractCall

SpecExtract == InitExtract /\ [][NextExtract]_vars


-----------------------------------------------------------------------------
(* SpecCase: smart_company_case applied to bounded names                    *)

MaxNamePieces == 4

NamePieces ==
    { <<"S","M","I","T","H">>,
      <<"O">>,
      <<"L","T","D">>,
      <<"T","H","E">>,
      <<"'">>,
      <<" ">>,
      <<"3">>,
      <<"b">> }

RECURSIVE Names(_)
Names(n) ==
    IF n = 0 THEN {<<>>}
    ELSE LET shorter == Names(n - 1)
         IN  shorter \cup {p \o b : p \in NamePieces, b \in shorter}

InitCase ==
    /\ pc = "call"
    /\ name \in Names(MaxNamePieces)
    /\ cased = <<>>
    /\ IdleExtract /\ IdleRows /\ IdleApi

CaseCall ==
    /\ pc = "call"
    /\ pc' = "return"
    /\ cased' = smart_company_case(name)
    /\ UNCHANGED <<name, extractVars, rowsVars, apiVars>>

NextCase == CaseCall

SpecCase == InitCase /\ [][NextCase]_vars

-----------------------------------------------------------------------------
(* SpecRows: build_output_lines applied to bounded record lists             *)

MaxRecords == 2

Item(n, c, r, on, before, resigned) ==
    [company_number |-> n, company_name |-> c, officer_role |-> r,
     appointed_on |-> on, appointed_before |-> before, resigned_on |-> resigned]

DateTexts == { <<>>, <<"1","9","9","1","-","0","7","-","0","1">>, <<"2","0","1","7","-","0","2","-","3","0">> }
BeforeTexts == { <<>>, <<"1","9","8","5","-","1","-","9">> }
ResignedTexts == { <<>>, <<"2","0","1","7","-","0","6","-","1","5">>, <<"J","u","n","e"," ","2","0","1","7">> }

\* records of one company over every combination of the date fields, and
\* records with other company names and role codes
ItemPool ==
    { Item(0, <<"A","C","M","E"," ","L","T","D">>, <<"d","i","r","e","c","t","o","r">>, on, before, resigned) :
        on \in DateTexts, before \in BeforeTexts, resigned \in ResignedTexts }
    \cup
    { Item(0, <<>>, <<>>, <<"2","0","0","0","-","0","2","-","2","9">>, <<>>, <<>>),
      Item(0, <<"A","c","m","e"," ","L","t","d">>, <<"l","l","p","-","d","e","s","i","g","n","a","t","e","d","_","m","e","m","b","e","r","-","o","f","-","U","K">>, <<>>, <<"0","9","9","9","-","1","2","-","3","1">>, <<"2","0","1","7","-","6","-","3","1">>) }

RECURSIVE ItemLists(_)
ItemLists(n) ==
    IF n = 0 THEN {<<>>}
    ELSE LET shorter == ItemLists(n - 1)
         IN  shorter \cup {<<it>> \o l : it \in ItemPool, l \in shorter}

InitRows ==
    /\ pc = "call"
    /\ appointments \in ItemLists(MaxRecords)
    /\ lines = <<>>
    /\ IdleExtract /\ IdleCase /\ IdleApi

RowsCall ==
    /\ pc = "call"
    /\ pc' = "return"
    /\ lines' = build_output_lines(appointments)
    /\ UNCHANGED <<appointments, extractVars, caseVars, apiVars>>

NextRows == RowsCall

SpecRows == InitRows /\ [][NextRows]_vars

-----------------------------------------------------------------------------
(* Spec: one GET /api request, with the pagination walk it runs             *)

MaxCount == 250
ServerCap == 50

\* record counts around the page boundaries
Counts == {c \in 0..MaxCount : c % ServerCap \in {0, 1}}

\* registries: the total reported exactly, too low, too high or not at all,
\* and pages as long as asked for or capped lower by the server
Upstreams ==
    UNION { { [count |-> c, has_total |-> TRUE, total |-> t, cap |-> cap] :
                t \in {c \div 2, c, c + 1}, cap \in {items_per_page, ServerCap} } :
            c \in Counts }
    \cup
    { [count |-> c, has_total |-> FALSE, total |-> 0, cap |-> cap] :
        c \in Counts, cap \in {items_per_page, ServerCap} }

EnvKeys == { <<>>, <<" ">>, <<"k">> }

ApiUrls ==
    { <<>>,
      <<"h","t","t","p","s",":","/","/","h","/","o","f","f","i","c","e","r","s","/","A","B","C","D","E","/","a","p","p","o","i","n","t","m","e","n","t","s","?","p","a","g","e","=","1">>,
      <<" ","A","B","C","D","E","-","f","g","h","i","j"," ">>,
      <<"/","c","o","m","p","a","n","y","/","Z">> }

OkStatuses == {200, 399}
ErrorStatuses == {400, 401, 404, 500}

Init ==
    /\ pc = "start"
    /\ api_key \in {get_api_key(env) : env \in EnvKeys}
    /\ user_input \in ApiUrls
    /\ active_only \in BOOLEAN
    /\ upstream \in Upstreams
    /\ extracted = NoOutcome
    /\ officer_id = <<>>
    /\ items = <<>>
    /\ start_index = 0
    /\ requests = <<>>
    /\ pages = <<>>
    /\ outcome = NoOutcome
    /\ response = NoResponse
    /\ lines = <<>>
    /\ appointments = <<>>
    /\ IdleCase

fetchVars == <<items, start_index, requests, pages, outcome>>

\* a slip in the status: the missing key answered like a pipeline failure
ApiMissingKeyAs400 ==
    /\ pc = "start"
    /\ api_key = <<>>
    /\ response' = [status |-> 400, body |-> [error |-> "Missing COMPANIES_HOUSE_API_KEY"]]
    /\ pc' = "done"
    /\ UNCHANGED <<user_input, extracted, caseVars, rowsVars, api_key, active_only,
                   upstream, officer_id, fetchVars>>

\* lines 296-298
ApiMissingKey ==
    /\ pc = "start"
    /\ api_key = <<>>
    /\ response' = [status |-> 500, body |-> [error |-> "Missing COMPANIES_HOUSE_API_KEY"]]
    /\ pc' = "done"
    /\ UNCHANGED <<user_input, extracted, caseVars, rowsVars, api_key, active_only,
                   upstream, officer_id, fetchVars>>

\* lines 300-304, extract_officer_id raising, and line 315
ApiExtractRaises ==
    /\ pc = "start"
    /\ api_key # <<>>
    /\ LET r == extract_officer_id(Strip(user_input))
       IN  /\ r.kind = "raise"
           /\ extracted' = r
           /\ response' = [status |-> 400, body |-> [error |-> r.exc]]
    /\ pc' = "done"
    /\ UNCHANGED <<user_input, caseVars, rowsVars, api_key, active_only, upstream,
                   officer_id, fetchVars>>

\* lines 300-305 and 170-176: the id is extracted and the walk starts
ApiExtractReturns ==
    /\ pc = "start"
    /\ api_key # <<>>
    /\ LET r == extract_officer_id(Strip(user_input))
       IN  /\ r.kind = "return"
           /\ extracted' = r
           /\ officer_id' = r.value
    /\ items' = <<>>
    /\ start_index' = 0
    /\ pc' = "fetch"
    /\ UNCHANGED <<user_input, caseVars, rowsVars, api_key, active_only, upstream,
                   requests, pages, outcome, response>>

Request == Params(start_index, active_only)

\* lines 179-208: one pass of the loop whose response has a status below 400
FetchPage ==
    /\ pc = "fetch"
    /\ \E status \in OkStatuses :
          LET page_items == PageAt(upstream, start_index)
              all_items  == items \o page_items
          IN  /\ ErrorFor(status) = ""
              /\ requests' = Append(requests, Request)
              /\ pages' = Append(pages, [status |-> status, n |-> Len(page_items)])
              /\ items' = all_items
              /\ IF StopWalk(upstream, Len(all_items), page_items)
                 THEN /\ outcome' = Return(all_items)
                      /\ pc' = "returned"
                      /\ UNCHANGED start_index
                 ELSE /\ start_index' = start_index + items_per_page
                      /\ UNCHANGED <<outcome, pc>>
    /\ UNCHANGED <<user_input, extracted, caseVars, rowsVars, api_key, active_only,
                   upstream, officer_id, response>>

\* a retry: the first error response of a walk is logged and the same
\* request is issued again
FetchErrorStatusRetried ==
    /\ pc = "fetch"
    /\ \E status \in ErrorStatuses :
          /\ requests' = Append(requests, Request)
          /\ pages' = Append(pages, [status |-> status, n |-> 0])
          /\ IF \E i \in DOMAIN pages : pages[i].status >= 400
             THEN outcome' = Raise(ErrorFor(status)) /\ pc' = "raised"
             ELSE UNCHANGED <<outcome, pc>>
    /\ UNCHANGED <<user_input, extracted, caseVars, rowsVars, api_key, active_only,
                   upstream, officer_id, items, start_index, response>>

\* lines 179-194: a response with an error status raises
FetchErrorStatus ==
    /\ pc = "fetch"
    /\ \E status \in ErrorStatuses :
          /\ ErrorFor(status) # ""
          /\ requests' = Append(requests, Request)
          /\ pages' = Append(pages, [status |-> status, n |-> 0])
          /\ outcome' = Raise(ErrorFor(status))
    /\ pc' = "raised"
    /\ UNCHANGED <<user_input, extracted, caseVars, rowsVars, api_key, active_only,
                   upstream, officer_id, items, start_index, response>>

\* line 182: requests.get raises (timeout, connection error); no response
FetchTransportError ==
    /\ pc = "fetch"
    /\ requests' = Append(requests, Request)
    /\ pages' = Append(pages, [status |-> 0, n |-> 0])
    /\ outcome' = Raise("ConnectionError")
    /\ pc' = "raised"
    /\ UNCHANGED <<user_input, extracted, caseVars, rowsVars, api_key, active_only,
                   upstream, officer_id, items, start_index, response>>

\* lines 306-313: the lines are built and returned
ApiRespondLines ==
    /\ pc = "returned"
    /\ appointments' = outcome.value
    /\ lines' = build_output_lines(outcome.value)
    /\ response' = [status |-> 200,
                    body |-> [officer_id |-> officer_id,
                              count |-> Len(lines'),
                              lines |-> lines']]
    /\ pc' = "done"
    /\ UNCHANGED <<user_input, extracted, caseVars, api_key, active_only, upstream,
                   officer_id, fetchVars>>

\* lines 314-315: the exception of the walk is caught
ApiRespondError ==
    /\ pc = "raised"
    /\ response' = [status |-> 400, body |-> [error |-> outcome.exc]]
    /\ pc' = "done"
    /\ UNCHANGED <<user_input, extracted, caseVars, rowsVars, api_key, active_only,
                   upstream, officer_id, fetchVars>>

Next ==
    \/ ApiMissingKey
    \/ ApiExtractRaises
    \/ ApiExtractReturns
    \/ FetchPage
    \/ FetchErrorStatus
    \/ FetchTransportError
    \/ ApiRespondLines
    \/ ApiRespondError

Spec == Init /\ [][Next]_vars

-----------------------------------------------------------------------------
(* Claims about extract_officer_id, stated without the operators of its     *)
(* model (the library's urlparse apart)                                     *)

\* the input without its leading and trailing blanks
Trimmed(s) ==
    LET solid == {i \in DOMAIN s : s[i] # " "}
    IN  IF solid = {} THEN <<>>
        ELSE SubSeq(s, CHOOSE i \in solid : \A j \in solid : i <= j,
                       CHOOSE i \in solid : \A j \in solid : i >= j)

\* "a bare id": no "/" and 10 or more characters, all of [A-Za-z0-9_-]
LooksBare(s) ==
    /\ Len(s) >= 10
    /\ \A i \in DOMAIN s : s[i] \in AlnumChars \cup {"_", "-"}

\* position i of the path starts "/officers/<id>" with a non-empty id
OfficersAt(path, i) ==
    /\ i + 10 <= Len(path)
    /\ SubSeq(path, i, i + 9) = SlashOfficers
    /\ path[i + 10] # "/"

\* the path segment that starts at position j: up to the next "/" or the end
SegmentAt(path, j) ==
    LET stops == {k \in j..Len(path) : path[k] = "/"}
    IN  IF stops = {} THEN SubSeq(path, j, Len(path))
        ELSE SubSeq(path, j, (CHOOSE k \in stops : \A l \in stops : k <= l) - 1)

\* position i starts "/officers/<id>/appointments"
OfficersAppointmentsAt(path, i) ==
    /\ OfficersAt(path, i)
    /\ LET after == i + 10 + Len(SegmentAt(path, i + 10))
       IN  /\ after + 12 <= Len(path)
           /\ SubSeq(path, after, after + 12) = SlashAppointments

Least(S) == CHOOSE i \in S : \A j \in S : i <= j

\* the path of the trimmed input when it parses as a URL, else no path
PathOf(s) == IF UrlParse(s).ok THEN UrlParse(s).path ELSE <<>>

\* C3: extract_officer_id raises InvalidInputError (ValueError) exactly when
\* the trimmed input is empty, or it is not a bare id and its URL path holds
\* no "/officers/<id>" with a non-empty id; otherwise it returns an id.
C3_ExtractFailsExactlyWhen ==
    pc = "return" =>
        LET s    == Trimmed(user_input)
            path == PathOf(s)
            fail == \/ s = <<>>
                    \/ /\ ~LooksBare(s)
                       /\ ~\E i \in DOMAIN path : OfficersAt(path, i)
        IN  /\ fail <=> extracted.kind = "raise"
            /\ extracted.kind = "raise" => extracted.exc = "ValueError"
            /\ ~fail => extracted.kind = "return" /\ extracted.value # <<>>

\* a URL whose path has no officers segment was rejected
C3_Witness ==
    /\ pc = "return"
    /\ extracted.kind = "raise"
    /\ \E i \in DOMAIN user_input : user_input[i] = "/"
    /\ UrlParse(Trimmed(user_input)).ok

\* C4: for an input parsed as a URL, the id returned is the path segment
\* after "/officers/" of the first "/officers/<id>/appointments" of the path
\* when there is one, else of the first "/officers/<id>"; never text of the
\* query string or the fragment.
C4_ExtractReturnsPathSegment ==
    (pc = "return" /\ extracted.kind = "return" /\ ~LooksBare(Trimmed(user_input))) =>
        LET path == PathOf(Trimmed(user_input))
            pref == {i \in DOMAIN path : OfficersAppointmentsAt(path, i)}
            any  == {i \in DOMAIN path : OfficersAt(path, i)}
        IN  /\ any # {}
            /\ extracted.value =
                   IF pref # {} THEN SegmentAt(path, Least(pref) + 10)
                   ELSE SegmentAt(path, Least(any) + 10)
            /\ \A i \in DOMAIN extracted.value :
                   extracted.value[i] \notin {"/", "?", "#", "Q", "F"}

\* the id came from an "/officers/<id>/appointments" that is not the first
\* "/officers/<id>" of the path
C4_Witness ==
    /\ pc = "return"
    /\ extracted.kind = "return"
    /\ LET path == PathOf(Trimmed(user_input))
           pref == {i \in DOMAIN path : OfficersAppointmentsAt(path, i)}
           any  == {i \in DOMAIN path : OfficersAt(path, i)}
       IN  /\ pref # {}
           /\ Least(pref) > Least(any)
           /\ extracted.value # SegmentAt(path, Least(any) + 10)

-----------------------------------------------------------------------------
(* Claims about smart_company_case                                          *)

LettersOf(s) == {i \in DOMAIN s : s[i] \in AlphaChars}

\* the name has a letter and its letters are not all uppercase
MixedCase(s) ==
    /\ LettersOf(s) # {}
    /\ \E i \in LettersOf(s) : s[i] \in LowerChars

\* the name has a letter and all its letters are uppercase
AllCaps(s) ==
    /\ LettersOf(s) # {}
    /\ \A i \in LettersOf(s) : s[i] \in UpperChars

\* C7: a non-empty name with a letter whose letters are not all uppercase is
\* returned unchanged, character for character (the docstring's "we leave it
\* untouched").
C7_MixedCaseUnchanged ==
    (pc = "return" /\ name # <<>> /\ MixedCase(name)) => cased = name

\* what line 109 makes of such a name instead: its leading and trailing
\* whitespace is removed, and nothing else is changed
MixedCaseTrimmedOnly ==
    (pc = "return" /\ name # <<>> /\ MixedCase(name)) => cased = Trimmed(name)

\* the words of an all-caps name that reach the title-casing branch: the
\* core is not a special word, not a short acronym and holds no digit
TitleBranch(core) ==
    LET clean == Upper(Keep(core, AlnumChars))
    IN  /\ ~\E sw \in SpecialWords : sw[1] = clean
        /\ ~(Len(clean) <= 3 /\ clean \notin ExcludeSmall)
        /\ \A k \in DOMAIN core : core[k] \notin DigitChars

\* only the first letter of the core uppercase, every other letter lowercase
FirstUpperOnly(core) ==
    [k \in DOMAIN core |->
        IF core[k] \notin AlphaChars THEN core[k]
        ELSE IF \A j \in 1..(k - 1) : core[j] \notin AlphaChars
             THEN UpperChar(core[k])
             ELSE LowerChar(core[k])]

\* a letter uppercase when it starts the core or follows a non-letter, every
\* other letter lowercase
UpperAfterNonLetter(core) ==
    [k \in DOMAIN core |->
        IF core[k] \notin AlphaChars THEN core[k]
        ELSE IF k = 1 \/ core[k - 1] \notin AlphaChars
             THEN UpperChar(core[k])
             ELSE LowerChar(core[k])]

\* every title-branch word of the all-caps name is lead + Want(core) + tail
\* at the same place of the result
TitleWordsAre(Want(_)) ==
    LET words == SplitOn(Trimmed(name), " ")
        out   == SplitOn(cased, " ")
    IN  /\ Len(out) = Len(words)
        /\ \A i \in DOMAIN words :
              LET m == WordMatch(words[i])
              IN  TitleBranch(m.core) =>
                      out[i] = m.lead \o Want(m.core) \o m.tail

\* C8 as claimed: in an all-caps name, a word that is no special word, no
\* short acronym and has no digit is rewritten with only the first letter of
\* its core uppercase and every other letter lowercase, also after an
\* apostrophe or another non-letter; lead and tail punctuation are kept.
C8_TitleFirstLetterOnly ==
    (pc = "return" /\ AllCaps(name)) => TitleWordsAre(FirstUpperOnly)

\* C8 as amended: such a word is rewritten with every letter of its core
\* that starts the core or follows a non-letter uppercase and every other
\* letter lowercase; lead and tail punctuation are kept.
C8_TitleEachLetterRun ==
    (pc = "return" /\ AllCaps(name)) => TitleWordsAre(UpperAfterNonLetter)

\* an all-caps name with a title-branch word that has a letter after a
\* non-letter inside its core, between kept punctuation
C8_Witness ==
    /\ pc = "return"
    /\ AllCaps(name)
    /\ \E i \in DOMAIN SplitOn(Trimmed(name), " ") :
          LET m == WordMatch(SplitOn(Trimmed(name), " ")[i])
          IN  /\ TitleBranch(m.core)
              /\ m.lead # <<>>
              /\ \E k \in 2..Len(m.core) :
                    m.core[k] \in AlphaChars /\ m.core[k - 1] \notin AlphaChars

-----------------------------------------------------------------------------
(* Claims about build_output_lines                                          *)

MonthYear(text) == format_month_year(parse_date(text))

\* "{role} ({start} - {end})" of one record
AppointmentText(item) ==
    LET start == CASE parse_date(item.appointed_on).ok ->
                        MonthYear(item.appointed_on)
                   [] /\ ~parse_date(item.appointed_on).ok
                      /\ parse_date(item.appointed_before).ok ->
                        <<"B","e","f","o","r","e"," ">> \o MonthYear(item.appointed_before)
                   [] OTHER -> <<"U","n","k","n","o","w","n"," ","s","t","a","r","t">>
        end   == CASE parse_date(item.resigned_on).ok ->
                        MonthYear(item.resigned_on)
                   [] OTHER -> <<"P","r","e","s","e","n","t">>
    IN  format_role(item.officer_role) \o <<" ","(">> \o start \o <<" ","-"," ">> \o end \o <<")">>

-----------------------------------------------------------------------------
(* Claims about fetch_all_appointments and the JSON endpoint                *)

\* the registry serves its list in slices of up to 100 from the requested
\* offset and reports the true total on every page
Honest(up) ==
    /\ up.count >= 1
    /\ up.cap = 100
    /\ up.has_total
    /\ up.total = up.count

\* a request that brought no page: an error status, or no response at all
Failed(page) == page.status = 0 \/ page.status >= 400

\* C1: against an honest registry of T >= 1 records the walk issues exactly
\* ceil(T/100) requests, at offsets 0, 100, 200, ... in that order, and
\* returns exactly the T records.
C1_HonestWalkRequests ==
    (outcome.kind = "return" /\ Honest(upstream)) =>
        /\ Len(requests) = (upstream.count + 99) \div 100
        /\ \A i \in DOMAIN requests : requests[i].start_index = 100 * (i - 1)
        /\ Len(outcome.value) = upstream.count
        /\ \A k \in DOMAIN outcome.value : outcome.value[k].company_number = k

\* 150 records came back from two requests
C1_Witness ==
    /\ outcome.kind = "return"
    /\ Honest(upstream)
    /\ upstream.count = 150
    /\ Len(requests) = 2
    /\ requests[2].start_index = 100
    /\ Len(outcome.value) = 150

\* C2: on every page request of the walk a 401 raises AuthenticationError
\* (PermissionError), a 404 NotFoundError (FileNotFoundError), any other
\* status >= 400 UpstreamError (RuntimeError), and a status below 400 none
\* of the three.
C2_StatusMapping ==
    \A i \in DOMAIN pages :
        LET status == pages[i].status
            raised == IF i = Len(pages) /\ outcome.kind = "raise"
                      THEN outcome.exc ELSE ""
        IN  /\ status = 401 => raised = "PermissionError"
            /\ status = 404 => raised = "FileNotFoundError"
            /\ (status >= 400 /\ status \notin {401, 404}) => raised = "RuntimeError"
            /\ status \in 1..399 =>
                   raised \notin {"PermissionError", "FileNotFoundError", "RuntimeError"}

\* a 404 on a later page of a walk, after a page with another status below 400
C2_Witness ==
    /\ Len(pages) >= 2
    /\ pages[1].status = 399
    /\ pages[Len(pages)].status = 404
    /\ outcome = Raise("FileNotFoundError")

KeyAbsent == api_key = <<>>
PipelineFailed == extracted.kind = "raise" \/ outcome.kind = "raise"

\* the three outcomes of GET /api, the success body carrying its list under
\* the key list_key
ApiOutcomes(list_key) ==
    pc = "done" =>
        /\ KeyAbsent =>
              /\ response.status = 500
              /\ DOMAIN response.body = {"error"}
              /\ extracted = NoOutcome
              /\ requests = <<>>
        /\ (~KeyAbsent /\ PipelineFailed) =>
              /\ response.status = 400
              /\ DOMAIN response.body = {"error"}
        /\ (~KeyAbsent /\ ~PipelineFailed) =>
              /\ response.status = 200
              /\ DOMAIN response.body = {"officer_id", "count", list_key}
              /\ response.body.officer_id = extracted.value
              /\ response.body.count = Len(response.body[list_key])
              /\ response.body.count = Len(items)
              /\ outcome = Return(items)

C9_FailureAbortsWalk ==
    /\ Len(requests) = Len(pages)
    /\ \A i \in DOMAIN pages : Failed(pages[i]) => i = Len(pages)
    /\ \A i, j \in DOMAIN requests :
          i # j => requests[i].start_index # requests[j].start_index
    /\ (\E i \in DOMAIN pages : Failed(pages[i])) =>
          /\ outcome.kind = "raise"
          /\ outcome.value = <<>>
          /\ pc \in {"raised", "done"}
          /\ pc = "done" =>
                /\ response.status = 400
                /\ DOMAIN response.body = {"error"}
                /\ lines = <<>>

\* a transport failure after a full page had been accumulated
C9_Witness ==
    /\ pc = "done"
    /\ Len(pages) >= 2
    /\ pages[Len(pages)].status = 0
    /\ Len(items) >= 100
    /\ DOMAIN response.body = {"error"}

\* C10: when every response is successful, an empty page ends the walk, with
\* or without total_results and also when it overstates the count; the
\* offsets requested are 0, 100, 200, ... whatever the pages held, so none
\* is requested twice.
C10_EmptyPageEndsWalk ==
    /\ \A i \in DOMAIN requests : requests[i].start_index = (i - 1) * 100
    /\ pc = "fetch" => start_index = Len(requests) * 100
    /\ \A i \in DOMAIN pages :
          (pages[i].status \in 1..399 /\ pages[i].n = 0) =>
              /\ i = Len(pages)
              /\ outcome.kind = "return"
              /\ pc \in {"returned", "done"}

\* a walk over short pages that an empty page ended although the reported
\* total had not been reached
C10_Witness ==
    /\ outcome.kind = "return"
    /\ Len(pages) >= 3
    /\ pages[Len(pages)].n = 0
    /\ pages[1].n \notin {0, 100}
    /\ upstream.has_total
    /\ upstream.total > Len(items)

=============================================================================
